---- MODULE Spec2Model ----
(***************************************************************************)
(* A model of rune-fs: the sector-chained data file reader (Dat2), the     *)
(* codec pipeline (Buffer<Encoded>/Buffer<Decoded>) and the indices loader *)
(* (Indices::new).  Bytes are naturals in 0..255, byte strings are         *)
(* sequences, and every parser consumes a byte string the way the nom      *)
(* combinator of the source does: it fails when the input is too short     *)
(* and otherwise returns the rest of the input and the value.              *)
(***************************************************************************)
EXTENDS Integers, Sequences, FiniteSets, TLC

VARIABLES
    dat2,     \* the memory-mapped data file of Dat2
    rd,       \* the state of one Dat2::read call (the sector walk)
    cbuf,     \* the codec Buffer under test, with its type state
    cghost,   \* history: the decoded buffer the last encode consumed
    dir,      \* the cache directory Indices::new is called on
    runs,     \* two calls of Indices::new on dir, each with its own order
    call      \* one call of a function on its own: its arguments and result

vars == <<dat2, rd, cbuf, cghost, dir, runs, call>>

----------------------------------------------------------------------------
(* Program constants.                                                      *)

SECTOR_HEADER_SIZE == 8
SECTOR_EXPANDED_HEADER_SIZE == 10
SECTOR_DATA_SIZE == 512
SECTOR_EXPANDED_DATA_SIZE == 510
SECTOR_SIZE == SECTOR_HEADER_SIZE + SECTOR_DATA_SIZE
REFERENCE_TABLE_ID == 255
U16_MAX == 65535
ARCHIVE_REF_LEN == 6

----------------------------------------------------------------------------
(* Byte strings and the nom number parsers.                                *)

Min(a, b) == IF a < b THEN a ELSE b

Drop(s, n) == SubSeq(s, n + 1, Len(s))

\* the sequences of a sequence, one after the other
RECURSIVE Concat(_)
Concat(seqs) == IF seqs = <<>> THEN <<>> ELSE seqs[1] \o Concat(Tail(seqs))

Take(s, n) == SubSeq(s, 1, n)

Fail == [ok |-> FALSE]

\* nom::number::complete::be_u8
be_u8(b) ==
    IF Len(b) < 1 THEN Fail
    ELSE [ok |-> TRUE, rest |-> Drop(b, 1), val |-> b[1]]

\* nom::number::complete::be_u16
be_u16(b) ==
    IF Len(b) < 2 THEN Fail
    ELSE [ok |-> TRUE, rest |-> Drop(b, 2), val |-> b[1] * 256 + b[2]]

\* nom::number::complete::be_u24
be_u24(b) ==
    IF Len(b) < 3 THEN Fail
    ELSE [ok |-> TRUE, rest |-> Drop(b, 3),
          val |-> (b[1] * 256 + b[2]) * 256 + b[3]]

\* nom::number::complete::be_u32.  A u32 of 2^31 or more is kept as the
\* negative number with the same 32 bits (v - 2^32), so that every u32 has
\* one representation and equality of values is equality of bits.
be_u32(b) ==
    IF Len(b) < 4 THEN Fail
    ELSE [ok |-> TRUE, rest |-> Drop(b, 4),
          val |-> (((IF b[1] >= 128 THEN b[1] - 256 ELSE b[1]) * 256
                    + b[2]) * 256 + b[3]) * 256 + b[4]]

\* a u32 used as a usize: is it at least n, for a small n
AtLeast(v, n) == v < 0 \/ v >= n

\* nom::number::complete::be_i16
be_i16(b) ==
    IF Len(b) < 2 THEN Fail
    ELSE [ok |-> TRUE, rest |-> Drop(b, 2),
          val |-> LET u == b[1] * 256 + b[2]
                  IN  IF u >= 32768 THEN u - 65536 ELSE u]

\* nom::bytes::complete::take
take(n, b) ==
    IF n < 0 \/ Len(b) < n THEN Fail
    ELSE [ok |-> TRUE, rest |-> Drop(b, n), val |-> Take(b, n)]

\* u32::to_be_bytes, of a u32 in the representation of be_u32
u32_to_be_bytes(n) ==
    LET m == IF n < 0 THEN (n + 2147483647) + 1 ELSE n
    IN  <<(m \div 16777216) + (IF n < 0 THEN 128 ELSE 0),
          (m \div 65536) % 256, (m \div 256) % 256, m % 256>>

\* i16::to_be_bytes
i16_to_be_bytes(n) ==
    LET v == (n + 65536) % 65536
    IN  <<v \div 256, v % 256>>

u16_be(n) == <<(n \div 256) % 256, n % 256>>

u24_be(n) == <<(n \div 65536) % 256, (n \div 256) % 256, n % 256>>

----------------------------------------------------------------------------
(* The data file.  A file is its length and, per 520-byte slot, the        *)
(* header fields and payload that were written there; FileByte gives the   *)
(* byte at an offset, so the reader below sees nothing but bytes.          *)

\* The payload byte at position pos (0-based) of slot s: the explicit
\* bytes first, then a fill pattern that depends on the slot and position.
PayloadByte(sec, s, pos) ==
    IF pos < Len(sec.data) THEN sec.data[pos + 1]
    ELSE (s * 37 + pos * 3 + 1) % 256

\* The 520 bytes of slot s, header first, in the layout the sector was
\* written with (wide: 10-byte header with a u32 archive id).
SlotByte(sec, s, pos) ==
    LET hdr == (IF sec.wide THEN u32_to_be_bytes(sec.archive_id)
                ELSE u16_be(sec.archive_id))
               \o u16_be(sec.chunk) \o u24_be(sec.next) \o <<sec.index_id>>
    IN  IF pos < Len(hdr) THEN hdr[pos + 1]
        ELSE PayloadByte(sec, s, pos - Len(hdr))

FileByte(f, off) ==
    SlotByte(f.sec[off \div SECTOR_SIZE], off \div SECTOR_SIZE, off % SECTOR_SIZE)

\* &self.0[from..to]; the caller has checked from <= to <= f.len
Slice(f, from, to) == [i \in 1..(to - from) |-> FileByte(f, from + i - 1)]

----------------------------------------------------------------------------
(* Sector headers (sector.rs).                                             *)

\* impl From<&ArchiveRef> for SectorHeaderSize with >= for >
SectorHeaderSizeFrom_Inclusive(archive) ==
    IF archive.id >= U16_MAX THEN "Expanded" ELSE "Normal"

\* impl From<&ArchiveRef> for SectorHeaderSize
SectorHeaderSizeFrom(archive) ==
    IF archive.id > U16_MAX THEN "Expanded" ELSE "Normal"

\* SectorHeader::new: archive id (u16 or u32), chunk u16, next u24, index u8
SectorHeaderNew(buffer, header_size) ==
    LET a == IF header_size = "Normal" THEN be_u16(buffer) ELSE be_u32(buffer)
    IN  IF ~a.ok THEN Fail
        ELSE LET c == be_u16(a.rest)
             IN  IF ~c.ok THEN Fail
                 ELSE LET n == be_u24(c.rest)
                      IN  IF ~n.ok THEN Fail
                          ELSE LET i == be_u8(n.rest)
                               IN  IF ~i.ok THEN Fail
                                   ELSE [ok |-> TRUE, rest |-> i.rest,
                                         val |-> [archive_id |-> a.val,
                                                  chunk |-> c.val,
                                                  next |-> n.val,
                                                  index_id |-> i.val]]

\* Sector::new with the whole slice, header included, as the data block
SectorNew_KeepsHeader(buffer, header_size) ==
    LET h == SectorHeaderNew(buffer, header_size)
    IN  IF ~h.ok THEN Fail
        ELSE [ok |-> TRUE, header |-> h.val, data_block |-> buffer]

\* Sector::new: the header, then rest() of the buffer as the data block
SectorNew(buffer, header_size) ==
    LET h == SectorHeaderNew(buffer, header_size)
    IN  IF ~h.ok THEN Fail
        ELSE [ok |-> TRUE, header |-> h.val, data_block |-> h.rest]

NoError == [type |-> "none", found |-> 0, expected |-> 0]

MkError(t, f, e) == [type |-> t, found |-> f, expected |-> e]

\* SectorHeader::validate without the comparison of the chunk
Validate_SkipsChunk(header, archive_id, chunk, index_id) ==
    IF header.archive_id # archive_id
    THEN MkError("SectorArchiveMismatch", header.archive_id, archive_id)
    ELSE IF header.index_id # index_id
    THEN MkError("SectorIndexMismatch", header.index_id, index_id)
    ELSE NoError

\* SectorHeader::validate with the index compared before the chunk
Validate_IndexFirst(header, archive_id, chunk, index_id) ==
    IF header.archive_id # archive_id
    THEN MkError("SectorArchiveMismatch", header.archive_id, archive_id)
    ELSE IF header.index_id # index_id
    THEN MkError("SectorIndexMismatch", header.index_id, index_id)
    ELSE IF header.chunk # chunk
    THEN MkError("SectorChunkMismatch", header.chunk, chunk)
    ELSE NoError

\* SectorHeader::validate: the first mismatching field decides the error
Validate(header, archive_id, chunk, index_id) ==
    IF header.archive_id # archive_id
    THEN MkError("SectorArchiveMismatch", header.archive_id, archive_id)
    ELSE IF header.chunk # chunk
    THEN MkError("SectorChunkMismatch", header.chunk, chunk)
    ELSE IF header.index_id # index_id
    THEN MkError("SectorIndexMismatch", header.index_id, index_id)
    ELSE NoError

----------------------------------------------------------------------------
(* Archive locators (archive.rs).                                          *)

\* ArchiveRef::from_buffer: u24 length, then u24 first sector
ArchiveRefFromBuffer(id, index_id, buffer) ==
    LET l == be_u24(buffer)
    IN  IF ~l.ok THEN Fail
        ELSE LET s == be_u24(l.rest)
             IN  IF ~s.ok THEN Fail
                 ELSE [ok |-> TRUE,
                       val |-> [id |-> id, index_id |-> index_id,
                                sector |-> s.val, length |-> l.val]]

\* ArchiveRef::data_blocks: one slice length per chunk, header included;
\* every chunk carries a full data block but the last, which carries the
\* remainder.
DataBlocks(archive) ==
    LET wide == SectorHeaderSizeFrom(archive) = "Expanded"
        hl   == IF wide THEN SECTOR_EXPANDED_HEADER_SIZE ELSE SECTOR_HEADER_SIZE
        dl   == IF wide THEN SECTOR_EXPANDED_DATA_SIZE ELSE SECTOR_DATA_SIZE
        rem  == archive.length % dl
        n    == (archive.length \div dl) + (IF rem > 0 THEN 1 ELSE 0)
    IN  [i \in 1..n |-> hl + (IF i = n /\ rem # 0 THEN rem ELSE dl)]

----------------------------------------------------------------------------
(* Dat2::read and Dat2::read_into_writer (lib.rs).  A walk is a record:    *)
(*   pc       "walk" in the loop, "wrote" when read_into_writer returned   *)
(*            Ok, "ok" when read returned the buffer, "err" when an error  *)
(*            was returned, "panic" when the call panicked                 *)
(*   current  the sector to visit next, chunk its position in the chain    *)
(*   blocks   the slice lengths data_blocks() has still to yield           *)
(*   writer   the bytes written so far                                     *)
(*   header_size  the SectorHeaderSize chosen before the loop              *)
(*   visited  history: the sectors visited, in order                       *)
(*   parsed   history: for every Sector::new that returned Ok, the header  *)
(*            size it was called with and the lengths of the header and    *)
(*            of the data block it split the slice into                    *)

WalkIdle ==
    [pc |-> "idle", ref |-> [id |-> 0, index_id |-> 0, sector |-> 0, length |-> 0],
     current |-> 0, chunk |-> 0, blocks |-> <<>>, writer |-> <<>>,
     header_size |-> "Normal", err |-> NoError, visited |-> <<>>,
     parsed |-> <<>>]

\* Dat2::read up to the loop: a buffer of capacity ref.length, none written
WalkBegin(archive_ref) ==
    [pc |-> "walk", ref |-> archive_ref, current |-> archive_ref.sector,
     chunk |-> 0, blocks |-> DataBlocks(archive_ref), writer |-> <<>>,
     header_size |-> SectorHeaderSizeFrom(archive_ref),
     err |-> NoError, visited |-> <<>>, parsed |-> <<>>]

\* validate(..)? returned the error and wrote the data block all the same
WalkReject_Writes(w, sector, v) ==
    [w EXCEPT !.pc = "err", !.err = v,
              !.writer = w.writer \o sector.data_block]

\* validate(..)? returns the error: nothing of the sector is written
WalkReject(w, sector, v) == [w EXCEPT !.pc = "err", !.err = v]

\* the sector is accepted, but the loop does not move on in data_blocks()
WalkAdvance_KeepsBlocks(w, sector) ==
    [w EXCEPT !.current = sector.header.next,
              !.chunk = w.chunk + 1,
              !.writer = w.writer \o sector.data_block]

\* the sector is accepted: current = next, the data block is written and
\* the loop moves on to the next chunk
WalkAdvance(w, sector) ==
    [w EXCEPT !.current = sector.header.next,
              !.chunk = w.chunk + 1,
              !.blocks = Tail(w.blocks),
              !.writer = w.writer \o sector.data_block]

\* the match on Sector::new(data_block, &header_size)
WalkSector(w, sector, data_len) ==
    IF ~sector.ok
    THEN [w EXCEPT !.pc = "err", !.visited = Append(w.visited, w.current),
                   !.err = MkError("ParseSector", w.ref.sector, 0)]
    ELSE IF Validate(sector.header, w.ref.id, w.chunk, w.ref.index_id) # NoError
    THEN WalkReject(
             [w EXCEPT !.visited = Append(w.visited, w.current),
                       !.parsed = Append(w.parsed,
                           [size |-> w.header_size,
                            header_len |-> data_len - Len(sector.data_block),
                            payload_len |-> Len(sector.data_block)])],
             sector,
             Validate(sector.header, w.ref.id, w.chunk, w.ref.index_id))
    ELSE WalkAdvance(
             [w EXCEPT !.visited = Append(w.visited, w.current),
                       !.parsed = Append(w.parsed,
                           [size |-> w.header_size,
                            header_len |-> data_len - Len(sector.data_block),
                            payload_len |-> Len(sector.data_block)])],
             sector)

\* One iteration of the for loop of read_into_writer, or its end.
WalkIter(f, w) ==
    IF w.blocks = <<>> THEN [w EXCEPT !.pc = "wrote"]
    ELSE IF w.current * SECTOR_SIZE + Head(w.blocks) > f.len
    THEN [w EXCEPT !.pc = "panic",
                   !.err = MkError("SliceOutOfRange",
                                   w.current * SECTOR_SIZE + Head(w.blocks), f.len)]
    ELSE WalkSector(w,
                    SectorNew(Slice(f, w.current * SECTOR_SIZE,
                                    w.current * SECTOR_SIZE + Head(w.blocks)),
                              w.header_size),
                    Head(w.blocks))

\* Dat2::read after read_into_writer returned Ok: the assertion
WalkAssert(w) ==
    IF Len(w.writer) = w.ref.length THEN [w EXCEPT !.pc = "ok"]
    ELSE [w EXCEPT !.pc = "panic",
                   !.err = MkError("AssertEq", Len(w.writer), w.ref.length)]

RECURSIVE WalkRun(_, _)
WalkRun(f, w) ==
    IF w.pc = "walk" THEN WalkRun(f, WalkIter(f, w))
    ELSE IF w.pc = "wrote" THEN WalkAssert(w)
    ELSE w

\* Dat2::read as a function of the file and the locator
Dat2Read(f, archive_ref) == WalkRun(f, WalkBegin(archive_ref))

----------------------------------------------------------------------------
(* The data files and locators the sector walk is checked on.              *)

NumSectors == 3
MaxChunks == 2

\* The order in which a chain runs through slots 1..NumSectors.
ChainOrders ==
    {[i \in 1..NumSectors |-> i], [i \in 1..NumSectors |-> NumSectors + 1 - i]}

ArchiveIds == {7, U16_MAX, U16_MAX + 1}

IndexIds == {2}

Damages == {"archive_id", "chunk", "index_id", "next_zero", "next_self"}

\* A sector of a chain as its writer left it, then damaged in one field.
DamagedSector(sec, slot, kind) ==
    CASE kind = "archive_id" -> [sec EXCEPT !.archive_id = sec.archive_id + 1]
      [] kind = "chunk"      -> [sec EXCEPT !.chunk = sec.chunk + 1]
      [] kind = "index_id"   -> [sec EXCEPT !.index_id = sec.index_id + 1]
      [] kind = "next_zero"  -> [sec EXCEPT !.next = 0]
      [] kind = "next_self"  -> [sec EXCEPT !.next = slot]
      [] OTHER               -> sec

\* A file of NumSectors + 1 slots: slot 0 is unused, slots order[1],
\* order[2], ... hold chunks 0, 1, ... of archive id of index idx; the
\* chain position hit (0: none) is damaged, and the file ends tail bytes
\* into its last slot.
ChainFile(order, id, idx, hit, kind, tail, payload) ==
    LET pos(s) == CHOOSE i \in 1..NumSectors : order[i] = s
        sector(s) ==
            IF s = 0
            THEN [wide |-> FALSE, archive_id |-> 0, chunk |-> 0, next |-> 0,
                  index_id |-> 0, data |-> <<>>]
            ELSE LET good == [wide |-> id > U16_MAX, archive_id |-> id,
                              chunk |-> pos(s) - 1,
                              next |-> IF pos(s) < NumSectors
                                       THEN order[pos(s) + 1] ELSE 0,
                              index_id |-> idx,
                              data |-> IF pos(s) = 1 THEN payload ELSE <<>>]
                 IN  IF pos(s) = hit THEN DamagedSector(good, s, kind) ELSE good
    IN  [len |-> NumSectors * SECTOR_SIZE + tail,
         sec |-> [s \in 0..NumSectors |-> sector(s)]]

FileTails == {SECTOR_SIZE, SECTOR_HEADER_SIZE + 1, 0}

Files ==
    {ChainFile(o, id, idx, 0, "none", t, <<>>) :
        o \in ChainOrders, id \in ArchiveIds, idx \in IndexIds, t \in FileTails}
    \cup
    {ChainFile(o, id, idx, h, k, SECTOR_SIZE, <<>>) :
        o \in ChainOrders, id \in ArchiveIds, idx \in IndexIds,
        h \in 1..NumSectors, k \in Damages}

DataSize(id) ==
    IF id > U16_MAX THEN SECTOR_EXPANDED_DATA_SIZE ELSE SECTOR_DATA_SIZE

Lengths(id) ==
    {0, 1} \cup {k * DataSize(id) + e : k \in 1..MaxChunks, e \in {-1, 0, 1}}

Refs ==
    UNION {{[id |-> id, index_id |-> idx, sector |-> s, length |-> l] :
                idx \in IndexIds, s \in {1, NumSectors, NumSectors + 1},
                l \in Lengths(id)} : id \in ArchiveIds}

\* The variables of the other components, at rest.
CodecIdle ==
    /\ cbuf = [state |-> "idle"]
    /\ cghost = [phase |-> "none"]

IndicesIdle ==
    /\ dir = [open |-> FALSE]
    /\ runs = <<>>

\* no call of a function on its own is under way
CallIdle == call = [pc |-> "idle"]

InitRead ==
    /\ dat2 \in Files
    /\ rd = WalkIdle
    /\ CodecIdle
    /\ IndicesIdle
    /\ CallIdle

\* Dat2::read is called with a locator
ReadBegin ==
    /\ rd.pc = "idle"
    /\ \E r \in Refs : rd' = WalkBegin(r)
    /\ UNCHANGED <<dat2, cbuf, cghost, dir, runs, call>>

\* one iteration of the loop of read_into_writer, or its return
WalkStep ==
    /\ rd.pc = "walk"
    /\ rd' = WalkIter(dat2, rd)
    /\ UNCHANGED <<dat2, cbuf, cghost, dir, runs, call>>

\* back in Dat2::read: assert_eq!(buffer.len(), archive_ref.length)
ReadReturn ==
    /\ rd.pc = "wrote"
    /\ rd' = WalkAssert(rd)
    /\ UNCHANGED <<dat2, cbuf, cghost, dir, runs, call>>

NextRead == ReadBegin \/ WalkStep \/ ReadReturn

SpecRead == InitRead /\ [][NextRead]_vars

----------------------------------------------------------------------------
(* XTEA (xtea.rs): 32 rounds over 8-byte blocks, big-endian, in place; a   *)
(* tail shorter than 8 bytes is left as it is.  A 32-bit word is a pair    *)
(* <<high 16 bits, low 16 bits>>; all arithmetic wraps at 2^32.            *)

ROUNDS == 32

GOLDEN_RATIO == <<40503, 31161>>   \* 0x9E3779B9

RECURSIVE Xor(_, _, _)
Xor(a, b, bits) ==
    IF bits = 0 THEN 0
    ELSE ((a + b) % 2) + 2 * Xor(a \div 2, b \div 2, bits - 1)

\* the exclusive or of two 4-bit numbers, tabulated
XorNibble == [a \in 0..15 |-> [b \in 0..15 |-> Xor(a, b, 4)]]

Xor16(a, b) ==
    XorNibble[a % 16][b % 16]
    + 16 * XorNibble[(a \div 16) % 16][(b \div 16) % 16]
    + 256 * XorNibble[(a \div 256) % 16][(b \div 256) % 16]
    + 4096 * XorNibble[a \div 4096][b \div 4096]

Xor32(a, b) == <<Xor16(a[1], b[1]), Xor16(a[2], b[2])>>

\* wrapping_add
Add32(a, b) ==
    LET lo == a[2] + b[2]
    IN  <<(a[1] + b[1] + lo \div 65536) % 65536, lo % 65536>>

\* wrapping_sub
Sub32(a, b) ==
    LET lo == a[2] - b[2] + 65536
    IN  <<(a[1] - b[1] + 65535 + lo \div 65536) % 65536, lo % 65536>>

Shl4(a) == <<(a[1] * 16 + a[2] \div 4096) % 65536, (a[2] * 16) % 65536>>

Shr5(a) == <<a[1] \div 32, a[2] \div 32 + (a[1] % 32) * 2048>>

\* ((v << 4) ^ (v >> 5)) + v  ^  (sum + key[sel])
Mix(v, sum, key, sel) ==
    Xor32(Add32(Xor32(Shl4(v), Shr5(v)), v), Add32(sum, key[sel + 1]))

\* One round of encipher on <<v0, v1, sum>>.
EncipherRound(st, key) ==
    LET w0 == Add32(st[1], Mix(st[2], st[3], key, st[3][2] % 4))
        s1 == Add32(st[3], GOLDEN_RATIO)
        w1 == Add32(st[2], Mix(w0, s1, key, (s1[2] \div 2048) % 4))
    IN  <<w0, w1, s1>>

\* One round of decipher on <<v0, v1, sum>>.
DecipherRound(st, key) ==
    LET w1 == Sub32(st[2], Mix(st[1], st[3], key, (st[3][2] \div 2048) % 4))
        s1 == Sub32(st[3], GOLDEN_RATIO)
        w0 == Sub32(st[1], Mix(w1, s1, key, s1[2] % 4))
    IN  <<w0, w1, s1>>

\* n rounds, n a power of two, by halving; the state between the halves
\* is bound as a value, which keeps the evaluation shallow.
RECURSIVE Rounds(_, _, _, _)
Rounds(st, key, decipher, n) ==
    IF n = 1
    THEN IF decipher THEN DecipherRound(st, key) ELSE EncipherRound(st, key)
    ELSE CHOOSE r \in
            {Rounds(x, key, decipher, n \div 2) :
                x \in {Rounds(st, key, decipher, n \div 2)}} : TRUE

\* n * a, wrapping, n a power of two: the sum after n rounds
RECURSIVE Times32(_, _)
Times32(a, n) ==
    IF n = 1 THEN a
    ELSE Add32(Times32(a, n \div 2), Times32(a, n \div 2))

WordOf(b, i) == <<b[i] * 256 + b[i + 1], b[i + 2] * 256 + b[i + 3]>>

BytesOf(w) == <<w[1] \div 256, w[1] % 256, w[2] \div 256, w[2] % 256>>

EncipherBlock(b, key) ==
    LET r == Rounds(<<WordOf(b, 1), WordOf(b, 5), <<0, 0>>>>, key, FALSE, ROUNDS)
    IN  BytesOf(r[1]) \o BytesOf(r[2])

DecipherBlock(b, key) ==
    LET r == Rounds(<<WordOf(b, 1), WordOf(b, 5), Times32(GOLDEN_RATIO, ROUNDS)>>,
                    key, TRUE, ROUNDS)
    IN  BytesOf(r[1]) \o BytesOf(r[2])

RECURSIVE Blocks(_, _, _)
Blocks(data, key, decipher) ==
    IF Len(data) < 8 THEN data
    ELSE (IF decipher THEN DecipherBlock(Take(data, 8), key)
          ELSE EncipherBlock(Take(data, 8), key))
         \o Blocks(Drop(data, 8), key, decipher)

\* xtea::encipher
XteaEncipher(data, key) == Blocks(data, key, FALSE)

\* xtea::decipher
XteaDecipher(data, key) == Blocks(data, key, TRUE)

----------------------------------------------------------------------------
(* The compression libraries (bzip2, flate2, lzma_rs), as far as the codec *)
(* depends on them.  Each stream is a library header, a body and a library *)
(* trailer.  The body is a run-length code of the data, a stand-in for the *)
(* real entropy coders that keeps what matters here: the stream differs    *)
(* from the data in content and length, a decoder yields the data front to *)
(* back, and it fails on a stream that ends or breaks before the bytes     *)
(* asked for are out.  A decoder is driven the way the codec drives it:    *)
(* for exactly n bytes (read_exact, or a provided unpacked size), so it    *)
(* stops once n bytes are out and never looks at what follows them.        *)

\* The length of the run of equal bytes at the head of data, at most 255.
RECURSIVE RunLen(_)
RunLen(data) ==
    IF Len(data) < 2 \/ data[1] # data[2] THEN 1
    ELSE LET r == RunLen(Tail(data)) IN IF r >= 255 THEN 255 ELSE r + 1

\* data as <<count, byte>> pairs, closed by a zero count
RECURSIVE Pack(_)
Pack(data) ==
    IF data = <<>> THEN <<0>>
    ELSE LET r == RunLen(data) IN <<r, data[1]>> \o Pack(Drop(data, r))

Repeat(b, n) == [i \in 1..n |-> b]

\* The first n bytes a packed body yields; it fails if the body closes,
\* ends or breaks off before n bytes are out.
RECURSIVE Unpack(_, _)
Unpack(body, n) ==
    IF n <= 0 THEN [ok |-> TRUE, val |-> <<>>]
    ELSE IF Len(body) < 2 \/ body[1] = 0 THEN Fail
    ELSE LET rest == Unpack(Drop(body, 2), n - body[1])
         IN  IF ~rest.ok THEN Fail
             ELSE [ok |-> TRUE,
                   val |-> Repeat(body[2], Min(body[1], n)) \o rest.val]

\* All the bytes a packed body yields up to its closing zero count; it
\* fails if the body ends or breaks off before that.
RECURSIVE UnpackAll(_)
UnpackAll(body) ==
    IF body = <<>> THEN Fail
    ELSE IF body[1] = 0 THEN [ok |-> TRUE, val |-> <<>>]
    ELSE IF Len(body) < 2 THEN Fail
    ELSE LET rest == UnpackAll(Drop(body, 2))
         IN  IF ~rest.ok THEN Fail
             ELSE [ok |-> TRUE, val |-> Repeat(body[2], body[1]) \o rest.val]

\* a 4-byte checksum of the data, as the trailers carry one
Checksum(data) ==
    LET RECURSIVE Sum(_)
        Sum(d) == IF d = <<>> THEN 0 ELSE (d[1] + Sum(Tail(d))) % 65536
    IN  u32_to_be_bytes(Sum(data) * 31 + Len(data))

BZ_MAGIC == <<66, 90, 104, 49>>   \* "BZh1"

\* BzEncoder at Compression::fast(): "BZh1", the block, the end-of-stream
\* mark (6 bytes) and the stream checksum (4 bytes)
BzEncoder(data) ==
    BZ_MAGIC \o Pack(data) \o <<23, 114, 69, 56, 80>> \o Checksum(data)

\* BzDecoder::read_exact into a buffer of n bytes
BzDecoder(stream, n) ==
    IF n = 0 THEN [ok |-> TRUE, val |-> <<>>]
    ELSE IF n < 0 \/ Len(stream) < 4 THEN Fail
    ELSE IF ~(/\ stream[1] = 66 /\ stream[2] = 90 /\ stream[3] = 104
              /\ stream[4] \in 49..57) THEN Fail
    ELSE Unpack(Drop(stream, 4), n)

GZ_HEADER == <<31, 139, 8, 0, 0, 0, 0, 0, 2, 255>>

\* GzEncoder at Compression::best(): the 10-byte header, the deflate
\* stream, CRC32 and ISIZE
GzEncoder(data) ==
    GZ_HEADER \o Pack(data) \o Checksum(data)
        \o <<Len(data) % 256, Len(data) \div 256, 0, 0>>

\* GzDecoder::read_exact into a buffer of n bytes
GzDecoder(stream, n) ==
    IF n = 0 THEN [ok |-> TRUE, val |-> <<>>]
    ELSE IF n < 0 \/ Len(stream) < 10 THEN Fail
    ELSE IF ~(stream[1] = 31 /\ stream[2] = 139 /\ stream[3] = 8) THEN Fail
    ELSE Unpack(Drop(stream, 10), n)

LZMA_HEADER == <<93, 0, 0, 128, 0>>   \* properties, dictionary size

\* lzma_compress_with_options, UnpackedSize::SkipWritingToHeader: the
\* 5-byte header without the size, then the stream
LzmaCompress(data) == LZMA_HEADER \o Pack(data)

\* lzma_decompress_with_options, UnpackedSize::UseProvided(Some(n)): the
\* header is read even when n = 0
LzmaDecompress(stream, n) ==
    IF Len(stream) < 5 \/ stream[1] >= 225 THEN Fail
    ELSE IF n < 0 THEN Fail
    ELSE Unpack(Drop(stream, 5), n)

----------------------------------------------------------------------------
(* The codec (codec.rs).  A buffer is a record:                            *)
(*   state        "Decoded" or "Encoded" (the type state), "Err" when the  *)
(*                call returned an error, "Panic" when it panicked         *)
(*   compression  0 None, 1 Bzip2, 2 Gzip, 3 Lzma                          *)
(*   buffer       the bytes                                                *)
(*   version      Option<i16>, keys Option<[u32; 4]>                       *)

FeatureRs3 == TRUE

None == [some |-> FALSE, val |-> 0]

Some(v) == [some |-> TRUE, val |-> v]

NoKeys == [some |-> FALSE, val |-> <<<<0, 0>>, <<0, 0>>, <<0, 0>>, <<0, 0>>>>]

\* impl From<Vec<u8>> for Buffer<State>, with Default
BufferFrom(bytes, state) ==
    [state |-> state, compression |-> 0, buffer |-> bytes,
     version |-> None, keys |-> NoKeys, err |-> "none"]

\* impl TryFrom<u8> for Compression
CompressionTryFrom(tag) ==
    IF tag \in {0, 1, 2} \/ (FeatureRs3 /\ tag = 3)
    THEN [ok |-> TRUE, val |-> tag] ELSE Fail

\* compress_bzip2: the library's stream without its first 4 bytes
compress_bzip2(data) == Drop(BzEncoder(data), 4)

compress_gzip(data) == GzEncoder(data)

compress_lzma(data) == LzmaCompress(data)

\* the optional trailing version: cond(buffer.len() >= 2, be_i16)
TrailingVersion_NeedsThree(rest) ==
    IF Len(rest) > 2 THEN Some(be_i16(rest).val) ELSE None

\* cond(buffer.len() >= 2, be_i16)(buffer)
TrailingVersion(rest) ==
    IF Len(rest) >= 2 THEN Some(be_i16(rest).val) ELSE None

CodecErr(e) == [kind |-> "err", err |-> e]

CodecPanic(e) == [kind |-> "panic", err |-> e]

CodecOk(version, data) == [kind |-> "ok", version |-> version, data |-> data]

\* decompress_none
decompress_none(buffer, len) ==
    LET d == take(len, buffer)
    IN  IF ~d.ok THEN CodecErr("nom")
        ELSE CodecOk(TrailingVersion(d.rest), d.val)

\* the stream decompress_bzip2 hands to BzDecoder, for len >= 4: a copy of
\* data (len bytes) with its bytes moved 4 places up and "BZh1" written
\* over the first 4
BzStream(data, len) == BZ_MAGIC \o Take(data, len - 4)

\* decompress_bzip2
decompress_bzip2(buffer, len) ==
    LET n == be_u32(buffer)
    IN  IF ~n.ok THEN CodecErr("nom")
        ELSE
        LET d == take(len, n.rest)
        IN  IF ~d.ok THEN CodecErr("nom")
            ELSE IF len < 4 THEN CodecPanic("slice index")
            ELSE
            LET compressed_data == BzStream(d.val, len)
                out == BzDecoder(compressed_data, n.val)
            IN  IF ~out.ok THEN CodecErr("io")
                ELSE CodecOk(TrailingVersion(d.rest), out.val)

\* decompress_gzip
decompress_gzip(buffer, len) ==
    LET n == be_u32(buffer)
    IN  IF ~n.ok THEN CodecErr("nom")
        ELSE
        LET d == take(len, n.rest)
        IN  IF ~d.ok THEN CodecErr("nom")
            ELSE
            LET out == GzDecoder(d.val, n.val)
            IN  IF ~out.ok THEN CodecErr("io")
                ELSE CodecOk(TrailingVersion(d.rest), out.val)

\* decompress_lzma: the library's error is unwrapped
decompress_lzma(buffer, len) ==
    LET n == be_u32(buffer)
    IN  IF ~n.ok THEN CodecErr("nom")
        ELSE
        LET d == take(len, n.rest)
        IN  IF ~d.ok THEN CodecErr("nom")
            ELSE
            LET out == LzmaDecompress(d.val, n.val)
            IN  IF ~out.ok THEN CodecPanic("unwrap")
                ELSE CodecOk(TrailingVersion(d.rest), out.val)

\* Buffer<Decoded>::encode that enciphers the frame once it is put
\* together, header and version included
Encode_CiphersFrame(b) ==
    LET compressed ==
            CASE b.compression = 0 -> b.buffer
              [] b.compression = 1 -> compress_bzip2(b.buffer)
              [] b.compression = 2 -> compress_gzip(b.buffer)
              [] b.compression = 3 -> compress_lzma(b.buffer)
        frame ==
            <<b.compression>>
            \o u32_to_be_bytes(Len(compressed))
            \o (IF b.compression # 0 THEN u32_to_be_bytes(Len(b.buffer))
                ELSE <<>>)
            \o compressed
            \o (IF b.version.some THEN i16_to_be_bytes(b.version.val)
                ELSE <<>>)
    IN  [b EXCEPT
          !.state = "Encoded",
          !.buffer = IF b.keys.some THEN XteaEncipher(frame, b.keys.val)
                     ELSE frame]

\* Buffer<Decoded>::encode
Encode(b) ==
    LET decompressed_len == Len(b.buffer)
        compressed ==
            CASE b.compression = 0 -> b.buffer
              [] b.compression = 1 -> compress_bzip2(b.buffer)
              [] b.compression = 2 -> compress_gzip(b.buffer)
              [] b.compression = 3 -> compress_lzma(b.buffer)
        compressed_data ==
            IF b.keys.some THEN XteaEncipher(compressed, b.keys.val)
            ELSE compressed
    IN  [b EXCEPT
          !.state = "Encoded",
          !.buffer =
              <<b.compression>>
              \o u32_to_be_bytes(Len(compressed_data))
              \o (IF b.compression # 0 THEN u32_to_be_bytes(decompressed_len)
                  ELSE <<>>)
              \o compressed_data
              \o (IF b.version.some THEN i16_to_be_bytes(b.version.val)
                  ELSE <<>>)]

Failed(b, state, e) ==
    [b EXCEPT !.state = state, !.buffer = <<>>, !.err = e]

\* Buffer<Encoded>::decode
Decode(b) ==
    LET t == be_u8(b.buffer)
    IN  IF ~t.ok THEN Failed(b, "Err", "nom")
        ELSE
        LET compression == CompressionTryFrom(t.val)
        IN  IF ~compression.ok THEN Failed(b, "Err", "unsupported")
            ELSE
            LET l == be_u32(t.rest)
            IN  IF ~l.ok THEN Failed(b, "Err", "nom")
                ELSE
                LET buffer == IF b.keys.some THEN XteaDecipher(l.rest, b.keys.val)
                              ELSE l.rest
                    r == CASE compression.val = 0 -> decompress_none(buffer, l.val)
                           [] compression.val = 1 -> decompress_bzip2(buffer, l.val)
                           [] compression.val = 2 -> decompress_gzip(buffer, l.val)
                           [] compression.val = 3 -> decompress_lzma(buffer, l.val)
                IN  IF r.kind = "err" THEN Failed(b, "Err", r.err)
                    ELSE IF r.kind = "panic" THEN Failed(b, "Panic", r.err)
                    ELSE [b EXCEPT !.state = "Decoded",
                                   !.compression = compression.val,
                                   !.buffer = r.data,
                                   !.version = r.version]

----------------------------------------------------------------------------
(* The codec as a state machine: a buffer is made from raw bytes in either *)
(* type state, configured with the builder methods, and encoded or         *)
(* decoded; encode and decode consume the buffer they are called on.       *)

MaxLen == 8

\* payloads: byte i is seed + i * step
Patterns == {<<0, 1>>, <<65, 0>>}

Payload(pat, n) == [i \in 1..n |-> (pat[1] + (i - 1) * pat[2]) % 256]

Payloads == {Payload(pat, n) : pat \in Patterns, n \in 0..MaxLen}

Versions == {7}

XteaKeys == {<<<<291, 17767>>, <<4660, 22136>>, <<9029, 26505>>, <<13398, 30874>>>>}

Compressions == IF FeatureRs3 THEN 0..3 ELSE 0..2

\* frames as they may lie in a data file: tag, compressed length, the
\* decompressed length for tags other than 0, and what follows
FrameBodies ==
    {<<>>, <<9, 9>>, <<3, 65, 0, 0, 0, 0>>,
     compress_bzip2(<<65, 65, 65>>), compress_gzip(<<65, 65, 65>>),
     compress_lzma(<<65, 65, 65>>)}

\* what follows the length of a stored frame: two payload bytes and one,
\* two or three more
StoredBodies == {<<9, 9, 9>>, <<9, 9, 128, 2>>, <<9, 9, 1, 2, 255>>}

Frame(tag, clen, dlen, body) ==
    <<tag>> \o u32_to_be_bytes(clen)
        \o (IF tag # 0 THEN u32_to_be_bytes(dlen) ELSE <<>>) \o body

RawFrames ==
    {<<>>, <<1>>, <<2, 0, 0>>, <<3, 0, 0, 0, 0, 0>>}
    \cup {Frame(tag, clen, 3, body) :
            tag \in 0..4, clen \in {2, 6}, body \in FrameBodies}
    \cup {Frame(tag, Len(body), dlen, body) :
            tag \in 1..3, dlen \in {0, 2, 3, 4}, body \in FrameBodies}
    \cup {Frame(0, 2, 0, body) : body \in StoredBodies}

NoGhost ==
    [phase |-> "none", orig |-> BufferFrom(<<>>, "Decoded"), touched |-> FALSE,
     frame |-> BufferFrom(<<>>, "Encoded")]

ReadIdle ==
    /\ dat2 = [len |-> 0, sec |-> <<>>]
    /\ rd = WalkIdle

InitCodec ==
    /\ cbuf \in {BufferFrom(p, "Decoded") : p \in Payloads}
                \cup {BufferFrom(f, "Encoded") : f \in RawFrames}
    /\ cghost = NoGhost
    /\ ReadIdle
    /\ IndicesIdle
    /\ CallIdle

Configurable == cbuf.state \in {"Decoded", "Encoded"} /\ cghost.phase # "decoded"

\* history: a builder method called between encode and decode is noted;
\* one called on a decoded frame ends the history of that decode
Touch ==
    IF cghost.phase = "encoded" THEN [cghost EXCEPT !.touched = TRUE]
    ELSE IF cghost.phase = "raw" /\ cbuf.state = "Decoded" THEN NoGhost
    ELSE cghost

\* Buffer::with_compression
WithCompression ==
    /\ Configurable
    /\ \E c \in Compressions : cbuf' = [cbuf EXCEPT !.compression = c]
    /\ cbuf' # cbuf
    /\ cghost' = Touch
    /\ UNCHANGED <<dat2, rd, dir, runs, call>>

\* Buffer::with_version
WithVersion ==
    /\ Configurable
    /\ \E v \in Versions : cbuf' = [cbuf EXCEPT !.version = Some(v)]
    /\ cbuf' # cbuf
    /\ cghost' = Touch
    /\ UNCHANGED <<dat2, rd, dir, runs, call>>

\* Buffer::with_xtea_keys
WithXteaKeys ==
    /\ Configurable
    /\ \E k \in XteaKeys : cbuf' = [cbuf EXCEPT !.keys = Some(k)]
    /\ cbuf' # cbuf
    /\ cghost' = Touch
    /\ UNCHANGED <<dat2, rd, dir, runs, call>>

\* Buffer<Decoded>::encode
EncodeStep ==
    /\ cbuf.state = "Decoded"
    /\ cghost.phase = "none"
    /\ cbuf' = Encode(cbuf)
    /\ cghost' = [NoGhost EXCEPT !.phase = "encoded", !.orig = cbuf]
    /\ UNCHANGED <<dat2, rd, dir, runs, call>>

\* Buffer<Encoded>::decode
DecodeStep ==
    /\ cbuf.state = "Encoded"
    /\ cbuf' = Decode(cbuf)
    /\ cghost' = [cghost EXCEPT !.phase = IF cghost.phase = "encoded"
                                          THEN "decoded" ELSE "raw",
                                 !.frame = cbuf]
    /\ UNCHANGED <<dat2, rd, dir, runs, call>>

NextCodec ==
    WithCompression \/ WithVersion \/ WithXteaKeys \/ EncodeStep \/ DecodeStep

SpecCodec == InitCodec /\ [][NextCodec]_vars

----------------------------------------------------------------------------
(* The index metadata parser (index.rs, parse.rs).                         *)

\* parse::be_u32_smart: 2 bytes if the top bit of the first byte is clear,
\* else 4 bytes with the top bit masked off
be_u32_smart(b) ==
    IF Len(b) < 1 THEN Fail
    ELSE IF b[1] < 128 THEN be_u16(b)
    ELSE IF Len(b) < 4 THEN Fail
    ELSE [ok |-> TRUE, rest |-> Drop(b, 4),
          val |-> (((b[1] - 128) * 256 + b[2]) * 256 + b[3]) * 256 + b[4]]

\* one of the number parsers, by name
Number(kind, b) ==
    CASE kind = "u8"    -> be_u8(b)
      [] kind = "u16"   -> be_u16(b)
      [] kind = "u32"   -> be_u32(b)
      [] kind = "smart" -> be_u32_smart(b)

\* nom::multi::many_m_n(0, max, parser): up to max values, as many as
\* parse; it stops without an error at the first value that does not
RECURSIVE many_m_n(_, _, _)
many_m_n(max, kind, b) ==
    IF max <= 0 THEN [ok |-> TRUE, rest |-> b, val |-> <<>>]
    ELSE LET x == Number(kind, b)
         IN  IF ~x.ok THEN [ok |-> TRUE, rest |-> b, val |-> <<>>]
             ELSE LET more == many_m_n(max - 1, kind, x.rest)
                  IN  [ok |-> TRUE, rest |-> more.rest,
                       val |-> <<x.val>> \o more.val]

\* the width of ids, counts and id modifiers: smart from protocol 7 on
Width(protocol) == IF protocol >= 7 THEN "smart" ELSE "u16"

\* parse_identified: the flags byte
parse_identified(b) ==
    LET f == be_u8(b)
    IN  IF ~f.ok THEN Fail
        ELSE [ok |-> TRUE, rest |-> f.rest,
              identified |-> f.val % 2 = 1,
              whirlpool  |-> (f.val \div 2) % 2 = 1,
              codec      |-> (f.val \div 4) % 2 = 1,
              hash       |-> (f.val \div 8) % 2 = 1]

\* parse_archive_count
parse_archive_count(b, protocol) == Number(Width(protocol), b)

\* parse_ids
parse_ids(b, protocol, archive_count) ==
    many_m_n(archive_count, Width(protocol), b)

\* parse_hashes: archive_count i32 if the column is there; a column that is
\* absent (or of another length) is replaced by archive_count * 4 zeros
parse_hashes(b, hash, archive_count) ==
    LET taken == IF hash THEN take(archive_count * 4, b)
                 ELSE [ok |-> TRUE, rest |-> b, val |-> <<>>]
    IN  IF ~taken.ok THEN Fail
        ELSE LET hashes == many_m_n(Len(taken.val), "u32", taken.val).val
             IN  [ok |-> TRUE, rest |-> taken.rest,
                  val |-> IF Len(hashes) # archive_count
                          THEN Repeat(0, archive_count * 4) ELSE hashes]

\* parse_whirlpools: archive_count digests of 64 bytes, zeros if absent
parse_whirlpools(b, whirlpool, archive_count) ==
    LET taken == IF whirlpool THEN take(archive_count * 64, b)
                 ELSE [ok |-> TRUE, rest |-> b, val |-> <<>>]
    IN  IF ~taken.ok THEN Fail
        ELSE [ok |-> TRUE, rest |-> taken.rest,
              val |-> [i \in 1..archive_count |->
                         IF i * 64 <= Len(taken.val)
                         THEN SubSeq(taken.val, (i - 1) * 64 + 1, i * 64)
                         ELSE Repeat(0, 64)]]

\* parse_entry_counts
parse_entry_counts(b, protocol, archive_count) ==
    many_m_n(archive_count, Width(protocol), b)

\* id += current_id on a u32 (values from 2^31 on are kept as v - 2^32),
\* for a current_id below 2^31: the wrapped sum, and whether it overflowed
AddU32(a, b) ==
    IF a >= 0
    THEN [over |-> FALSE,
          val |-> IF b > 2147483647 - a
                  THEN (a - 2147483647 - 1) + (b - 2147483647 - 1) ELSE a + b]
    ELSE [over |-> a + b >= 0, val |-> a + b]

\* last_archive_id += id as i32, for an id below 2^31
AddI32(a, b) ==
    IF a > 0 /\ b > 2147483647 - a
    THEN [over |-> TRUE, val |-> (a - 2147483647 - 1) + (b - 2147483647 - 1)]
    ELSE [over |-> FALSE, val |-> a + b]

\* the running sums of a list of deltas, from acc
RECURSIVE Sums(_, _, _)
Sums(deltas, acc, signed) ==
    IF deltas = <<>> THEN [over |-> FALSE, val |-> <<>>]
    ELSE LET x == IF signed THEN AddI32(acc, deltas[1]) ELSE AddU32(acc, deltas[1])
             more == Sums(Tail(deltas), x.val, signed)
         IN  [over |-> x.over \/ more.over, val |-> <<x.val>> \o more.val]

\* parse_valid_ids: per archive up to entry_count id modifiers, summed up
\* in a u32
RECURSIVE parse_valid_ids(_, _, _)
parse_valid_ids(b, protocol, entry_counts) ==
    IF entry_counts = <<>> THEN [ok |-> TRUE, over |-> FALSE, rest |-> b, val |-> <<>>]
    ELSE LET mods == many_m_n(entry_counts[1], Width(protocol), b)
             ids  == Sums(mods.val, 0, FALSE)
             more == parse_valid_ids(mods.rest, protocol, Tail(entry_counts))
         IN  [ok |-> TRUE, over |-> ids.over \/ more.over, rest |-> more.rest,
              val |-> <<ids.val>> \o more.val]

MinLen(lens) == CHOOSE m \in lens : \A l \in lens : m <= l

\* IndexMetadata::from_slice goes through the buffer column by column.
\* Its state between two columns: what is left of the buffer, what has
\* been parsed, err once a parser has failed (the ? returns), over once
\* a sum has overflowed.
MetaStart(buffer) ==
    [err |-> FALSE, over |-> FALSE, rest |-> buffer, protocol |-> 0,
     identified |-> FALSE, whirlpool |-> FALSE, codec |-> FALSE, hash |-> FALSE,
     archive_count |-> 0, ids |-> <<>>, name_hashes |-> <<>>, crcs |-> <<>>,
     hashes |-> <<>>, whirlpools |-> <<>>, versions |-> <<>>,
     entry_counts |-> <<>>, valid_ids |-> <<>>]

MetaFail(st) == [st EXCEPT !.err = TRUE]

\* let (buffer, protocol) = be_u8(buffer)?
ParseProtocol(st) ==
    LET p == be_u8(st.rest)
    IN  IF st.err THEN st ELSE IF ~p.ok THEN MetaFail(st)
        ELSE [st EXCEPT !.rest = p.rest, !.protocol = p.val]

\* cond(protocol >= 6, be_u32): the revision, read and dropped
ParseRevision(st) ==
    LET rev == be_u32(st.rest)
    IN  IF st.err \/ st.protocol < 6 THEN st
        ELSE IF ~rev.ok THEN MetaFail(st)
        ELSE [st EXCEPT !.rest = rev.rest]

ParseFlags(st) ==
    LET fl == parse_identified(st.rest)
    IN  IF st.err THEN st ELSE IF ~fl.ok THEN MetaFail(st)
        ELSE [st EXCEPT !.rest = fl.rest, !.identified = fl.identified,
                        !.whirlpool = fl.whirlpool, !.codec = fl.codec,
                        !.hash = fl.hash]

ParseArchiveCount(st) ==
    LET n == parse_archive_count(st.rest, st.protocol)
    IN  IF st.err THEN st ELSE IF ~n.ok THEN MetaFail(st)
        ELSE [st EXCEPT !.rest = n.rest, !.archive_count = n.val]

ParseIds(st) ==
    LET ids == parse_ids(st.rest, st.protocol, st.archive_count)
    IN  IF st.err THEN st
        ELSE [st EXCEPT !.rest = ids.rest, !.ids = ids.val]

ParseNameHashes(st) ==
    LET h == parse_hashes(st.rest, st.identified, st.archive_count)
    IN  IF st.err THEN st ELSE IF ~h.ok THEN MetaFail(st)
        ELSE [st EXCEPT !.rest = h.rest, !.name_hashes = h.val]

ParseCrcs(st) ==
    LET crcs == many_m_n(st.archive_count, "u32", st.rest)
    IN  IF st.err THEN st
        ELSE [st EXCEPT !.rest = crcs.rest, !.crcs = crcs.val]

ParseHashes(st) ==
    LET h == parse_hashes(st.rest, st.hash, st.archive_count)
    IN  IF st.err THEN st ELSE IF ~h.ok THEN MetaFail(st)
        ELSE [st EXCEPT !.rest = h.rest, !.hashes = h.val]

ParseWhirlpools(st) ==
    LET w == parse_whirlpools(st.rest, st.whirlpool, st.archive_count)
    IN  IF st.err THEN st ELSE IF ~w.ok THEN MetaFail(st)
        ELSE [st EXCEPT !.rest = w.rest, !.whirlpools = w.val]

\* cond(codec, many_m_n(0, archive_count * 8, be_u8)): read and dropped
SkipCodec(st) ==
    IF st.err \/ ~st.codec THEN st
    ELSE [st EXCEPT !.rest = many_m_n(st.archive_count * 8, "u8", st.rest).rest]

ParseVersions(st) ==
    LET versions == many_m_n(st.archive_count, "u32", st.rest)
    IN  IF st.err THEN st
        ELSE [st EXCEPT !.rest = versions.rest, !.versions = versions.val]

ParseEntryCounts(st) ==
    LET counts == parse_entry_counts(st.rest, st.protocol, st.archive_count)
    IN  IF st.err THEN st
        ELSE [st EXCEPT !.rest = counts.rest, !.entry_counts = counts.val]

ParseValidIds(st) ==
    LET ids == parse_valid_ids(st.rest, st.protocol, st.entry_counts)
    IN  IF st.err THEN st
        ELSE [st EXCEPT !.rest = ids.rest, !.valid_ids = ids.val,
                        !.over = ids.over]

MetaErr == [kind |-> "err", err |-> "nom"]

MetaPanic == [kind |-> "panic", err |-> "overflow"]

\* izip! over the columns and the loop that sums the ids up.
\* overflow_checks: the build panics on integer overflow (debug) rather
\* than wrapping (release).
Archives(st, overflow_checks) ==
    LET n == MinLen({Len(st.ids), Len(st.name_hashes), Len(st.crcs),
                     Len(st.hashes), Len(st.whirlpools), Len(st.versions),
                     Len(st.entry_counts), Len(st.valid_ids)})
        last_archive_id == Sums(Take(st.ids, n), 0, TRUE)
    IN  IF st.err THEN MetaErr
        ELSE IF overflow_checks /\ (st.over \/ last_archive_id.over)
        THEN MetaPanic
        ELSE [kind |-> "ok",
              val |-> [k \in 1..n |->
                         [id |-> last_archive_id.val[k],
                          name_hash |-> st.name_hashes[k],
                          crc |-> st.crcs[k],
                          hash |-> st.hashes[k],
                          whirlpool |-> st.whirlpools[k],
                          version |-> st.versions[k],
                          entry_count |-> st.entry_counts[k],
                          valid_ids |-> st.valid_ids[k]]]]

\* IndexMetadata::from_slice
IndexMetadataFromSlice(buffer, overflow_checks) ==
    Archives(
        ParseValidIds(ParseEntryCounts(ParseVersions(SkipCodec(
        ParseWhirlpools(ParseHashes(ParseCrcs(ParseNameHashes(
        ParseIds(ParseArchiveCount(ParseFlags(ParseRevision(
        ParseProtocol(MetaStart(buffer)))))))))))))),
        overflow_checks)

----------------------------------------------------------------------------
(* The indices loader (index.rs).  A directory entry is a record           *)
(*   stem, ext    the file name before and after its last dot (ext: Option *)
(*                of the bytes of the extension)                           *)
(*   bytes        the content of the file                                  *)
(* and a run of Indices::new is a record                                   *)
(*   pc           "loop", or how it ended: "ok", "err", "panic"            *)
(*   ref_index    the index of the reference table                         *)
(*   todo         the entries read_dir has not yet yielded                 *)
(*   indices      the map under construction                               *)
(*   err          the error returned or the panic                          *)
(*   reads        history: the locators Dat2::read was called with         *)
(*   failed_at    history: the entry at which the call failed              *)

NoExt == [some |-> FALSE, val |-> <<>>]

\* "idx"
IDX == <<105, 100, 120>>

\* the decimal digits of n, as format!("{}", n) writes them
RECURSIVE Decimal(_)
Decimal(n) ==
    IF n < 10 THEN <<48 + n>> ELSE Decimal(n \div 10) \o <<48 + (n % 10)>>

\* format!("idx{}", id)
IndexExtension(id) == IDX \o Decimal(id)

\* str::parse::<u8>: an optional '+', then one or more digits, at most 255
RECURSIVE ParseDigits(_, _)
ParseDigits(digits, acc) ==
    IF digits = <<>> THEN [ok |-> TRUE, val |-> acc]
    ELSE IF digits[1] < 48 \/ digits[1] > 57 THEN Fail
    ELSE IF acc * 10 + (digits[1] - 48) > 255 THEN Fail
    ELSE ParseDigits(Tail(digits), acc * 10 + (digits[1] - 48))

ParseU8(str) ==
    LET digits == IF str # <<>> /\ str[1] = 43 THEN Tail(str) ELSE str
    IN  IF digits = <<>> THEN Fail ELSE ParseDigits(digits, 0)

\* ext.strip_prefix("idx")
StripIdx(ext) ==
    IF Len(ext) >= 3 /\ SubSeq(ext, 1, 3) = IDX
    THEN [some |-> TRUE, val |-> Drop(ext, 3)] ELSE NoExt

IndicesErr(type, idx, arc) == [type |-> type, idx |-> idx, arc |-> arc]

NoIndicesErr == IndicesErr("none", 0, 0)

\* Index::from_buffer: one locator per complete 6-byte record
IndexFromBuffer(id, buffer) ==
    [id |-> id,
     archive_refs |->
        [a \in 0..(Len(buffer) \div ARCHIVE_REF_LEN - 1) |->
            ArchiveRefFromBuffer(a, id,
                SubSeq(buffer, a * ARCHIVE_REF_LEN + 1,
                               (a + 1) * ARCHIVE_REF_LEN)).val],
     metadata |-> <<>>]

\* Index::from_path on a file that exists: it panics unless the extension
\* is the one the id is written as
IndexFromPath(id, entry) ==
    LET extension == IF entry.ext.some THEN entry.ext.val
                     ELSE <<110, 111, 116, 104, 105, 110, 103>>
    IN  IF extension # IndexExtension(id)
        THEN [kind |-> "panic", err |-> IndicesErr("ExtensionMismatch", id, 0)]
        ELSE [kind |-> "ok", val |-> IndexFromBuffer(id, entry.bytes)]

\* IndexMetadata::from_buffer, with its error through ?
MetadataParsed(m) ==
    IF m.kind # "ok" THEN [kind |-> m.kind, err |-> IndicesErr(m.err, 0, 0)]
    ELSE [kind |-> "ok", val |-> m.val]

\* .decode()? and the parse of the decoded buffer
MetadataDecoded(d, overflow_checks) ==
    IF d.state = "Panic" THEN [kind |-> "panic", err |-> IndicesErr(d.err, 0, 0)]
    ELSE IF d.state = "Err" THEN [kind |-> "err", err |-> IndicesErr(d.err, 0, 0)]
    ELSE MetadataParsed(IndexMetadataFromSlice(d.buffer, overflow_checks))

\* self.read(archive_ref)? and the decoding of what was read
MetadataRead(w, overflow_checks) ==
    IF w.pc # "ok" THEN [kind |-> w.pc, err |-> IndicesErr(w.err.type, 0, 0)]
    ELSE MetadataDecoded(Decode(BufferFrom(w.writer, "Encoded")), overflow_checks)

\* Dat2::metadata: read, decode, parse
Dat2Metadata(f, archive_ref, overflow_checks) ==
    MetadataRead(Dat2Read(f, archive_ref), overflow_checks)

\* ref_index.archive_refs.get(&index_id) that answers a locator of length
\* 0 for an index the table has no record of
LookupRef_Default(ref_index, index_id) ==
    IF index_id \in DOMAIN ref_index.archive_refs
    THEN Some(ref_index.archive_refs[index_id])
    ELSE Some([id |-> index_id, index_id |-> REFERENCE_TABLE_ID,
               sector |-> 0, length |-> 0])

\* ref_index.archive_refs.get(&(index_id as u32))
LookupRef(ref_index, index_id) ==
    IF index_id \in DOMAIN ref_index.archive_refs
    THEN Some(ref_index.archive_refs[index_id])
    ELSE [some |-> FALSE,
          val |-> [id |-> 0, index_id |-> 0, sector |-> 0, length |-> 0]]

\* the metadata is fetched whatever the length of the locator
LoadMetadata_Always(f, archive_ref, overflow_checks) ==
    [read |-> TRUE, res |-> Dat2Metadata(f, archive_ref, overflow_checks)]

\* if archive_ref.length != 0 { index.metadata = dat2.metadata(archive_ref)? }
LoadMetadata(f, archive_ref, overflow_checks) ==
    IF archive_ref.length # 0
    THEN [read |-> TRUE, res |-> Dat2Metadata(f, archive_ref, overflow_checks)]
    ELSE [read |-> FALSE, res |-> [kind |-> "ok", val |-> <<>>]]

\* HashMap::insert
Insert(map, key, value) ==
    [k \in DOMAIN map \cup {key} |-> IF k = key THEN value ELSE map[k]]

NoEntry == [stem |-> "", ext |-> NoExt, bytes |-> <<>>]

\* the call ends in an error or a panic at an entry: the map under
\* construction and the directory iterator are dropped
RunFailed(run, kind, err, entry) ==
    [run EXCEPT !.pc = kind, !.err = err, !.todo = {}, !.indices = <<>>,
                !.failed_at = entry]

FindEntry(d, stem, ext) ==
    {e \in d.entries : e.stem = stem /\ e.ext = Some(ext)}

NoIndex == [id |-> 0, archive_refs |-> <<>>, metadata |-> <<>>]

\* Indices::new up to the loop: the reference table is loaded from
\* main_file_cache.idx255, the data file is mapped, read_dir is opened
IndicesBegin(d) ==
    LET table == FindEntry(d, "main_file_cache", IndexExtension(REFERENCE_TABLE_ID))
        data  == FindEntry(d, "main_file_cache", <<100, 97, 116, 50>>)
        fresh == [pc |-> "loop", ref_index |-> NoIndex, todo |-> {},
                  indices |-> <<>>, err |-> NoIndicesErr, reads |-> {},
                  failed_at |-> NoEntry]
    IN  IF table = {} \/ data = {}
        THEN RunFailed(fresh, "err", IndicesErr("Io", 0, 0), NoEntry)
        ELSE [fresh EXCEPT
                !.ref_index = IndexFromPath(REFERENCE_TABLE_ID,
                                            CHOOSE e \in table : TRUE).val,
                !.todo = d.entries]


\* index.metadata = ..?; indices.insert(index_id, index): m is what
\* LoadMetadata gave for the locator
AttachMetadata(r, entry, index, archive_ref, m) ==
    LET read == [r EXCEPT !.reads = IF m.read THEN @ \cup {archive_ref} ELSE @]
    IN  IF m.res.kind # "ok" THEN RunFailed(read, m.res.kind, m.res.err, entry)
        ELSE [read EXCEPT !.indices =
                Insert(@, index.id, [index EXCEPT !.metadata = m.res.val])]

\* The body of the loop where the entry of the reference table ends the
\* enumeration instead of being passed over.
IndicesEntry_StopsAt255(run, entry, f, overflow_checks) ==
    LET r == [run EXCEPT !.todo = @ \ {entry}]
        stripped == IF entry.ext.some THEN StripIdx(entry.ext.val) ELSE NoExt
        index_id == ParseU8(stripped.val)
        index == IndexFromPath(index_id.val, entry)
        archive_ref == LookupRef(r.ref_index, index_id.val)
    IN  IF ~stripped.some THEN r
        ELSE IF ~index_id.ok
        THEN RunFailed(r, "panic", IndicesErr("InvalidExtension", 0, 0), entry)
        ELSE IF index_id.val = REFERENCE_TABLE_ID THEN [r EXCEPT !.todo = {}]
        ELSE IF index.kind # "ok" THEN RunFailed(r, index.kind, index.err, entry)
        ELSE IF ~archive_ref.some
        THEN RunFailed(r, "err",
                       IndicesErr("ArchiveNotFound", REFERENCE_TABLE_ID,
                                  index_id.val),
                       entry)
        ELSE AttachMetadata(r, entry, index.val, archive_ref.val,
                            LoadMetadata(f, archive_ref.val, overflow_checks))

\* The body of the loop of Indices::new for the entry read_dir yields.
IndicesEntry(run, entry, f, overflow_checks) ==
    LET r == [run EXCEPT !.todo = @ \ {entry}]
        stripped == IF entry.ext.some THEN StripIdx(entry.ext.val) ELSE NoExt
        index_id == ParseU8(stripped.val)
        index == IndexFromPath(index_id.val, entry)
        archive_ref == LookupRef(r.ref_index, index_id.val)
    IN  IF ~stripped.some THEN r
        ELSE IF ~index_id.ok
        THEN RunFailed(r, "panic", IndicesErr("InvalidExtension", 0, 0), entry)
        ELSE IF index_id.val = REFERENCE_TABLE_ID THEN r
        ELSE IF index.kind # "ok" THEN RunFailed(r, index.kind, index.err, entry)
        ELSE IF ~archive_ref.some
        THEN RunFailed(r, "err",
                       IndicesErr("ArchiveNotFound", REFERENCE_TABLE_ID,
                                  index_id.val),
                       entry)
        ELSE AttachMetadata(r, entry, index.val, archive_ref.val,
                            LoadMetadata(f, archive_ref.val, overflow_checks))

\* The end of Indices::new without the insertion of the reference table.
IndicesFinish_NoRefTable(run) == [run EXCEPT !.pc = "ok"]

\* The end of Indices::new: the reference table goes in under 255
IndicesFinish(run) ==
    [run EXCEPT !.pc = "ok",
                !.indices = Insert(@, REFERENCE_TABLE_ID, run.ref_index)]

----------------------------------------------------------------------------
(* The directories the loader is checked on.  The data file holds, in slot *)
(* k + 1, archive k of index 255: the encoded metadata of index k.         *)

IndexIdsOnDisk == {0, 1}

\* the decoded metadata of index k: protocol 5 with two archives for
\* index 0, protocol 7 with names for index 1
MetaPayload(k) ==
    IF k = 0
    THEN <<5, 0>> \o <<0, 2>> \o <<0, 3, 0, 4>> \o <<0, 0, 0, 9, 128, 0, 0, 1>>
         \o <<0, 0, 0, 1, 0, 0, 0, 2>> \o <<0, 1, 0, 2>> \o <<0, 5>> \o <<0, 1, 0, 1>>
    ELSE <<7, 0, 0, 0, 1, 1>> \o <<128, 0, 0, 1>> \o <<127, 255>> \o <<0, 0, 0, 7>>
         \o <<1, 2, 3, 4>> \o <<0, 0, 0, 2>> \o <<0, 1>> \o <<127, 255>>

\* its frame: stored for index 0, gzip with a version for index 1
MetaFrame(k) ==
    Encode([BufferFrom(MetaPayload(k), "Decoded") EXCEPT
              !.compression = IF k = 0 THEN 0 ELSE 2,
              !.version = IF k = 0 THEN None ELSE Some(7)]).buffer

IndicesFile ==
    [len |-> (Cardinality(IndexIdsOnDisk) + 1) * SECTOR_SIZE,
     sec |-> [s \in 0..Cardinality(IndexIdsOnDisk) |->
                [wide |-> FALSE, archive_id |-> IF s = 0 THEN 0 ELSE s - 1,
                 chunk |-> 0, next |-> 0,
                 index_id |-> IF s = 0 THEN 0 ELSE REFERENCE_TABLE_ID,
                 data |-> IF s = 0 THEN <<>> ELSE MetaFrame(s - 1)]]]

RecordKinds == {"zero", "good", "short", "mismatch", "beyond"}

\* the 6-byte record of the reference table for index k
RefRecord(kind, k) ==
    CASE kind = "zero"     -> u24_be(0) \o u24_be(0)
      [] kind = "good"     -> u24_be(Len(MetaFrame(k))) \o u24_be(k + 1)
      [] kind = "short"    -> u24_be(1) \o u24_be(k + 1)
      [] kind = "mismatch" -> u24_be(Len(MetaFrame(k))) \o u24_be(2 - k)
      [] kind = "beyond"   -> u24_be(Len(MetaFrame(k)))
                              \o u24_be(Cardinality(IndexIdsOnDisk) + 1)

RECURSIVE RefTable(_, _)
RefTable(kinds, k) ==
    IF kinds = <<>> THEN <<>>
    ELSE RefRecord(kinds[1], k) \o RefTable(Tail(kinds), k + 1)

RefTables ==
    {RefTable(kinds, 0) :
        kinds \in UNION {[1..n -> RecordKinds] : n \in 0..Cardinality(IndexIdsOnDisk)}}

Entry(stem, ext, bytes) == [stem |-> stem, ext |-> Some(ext), bytes |-> bytes]

\* the data file (its content is the variable dat2) and the reference table
DataEntry == Entry("main_file_cache", <<100, 97, 116, 50>>, <<>>)

TableEntry(table) ==
    Entry("main_file_cache", IndexExtension(REFERENCE_TABLE_ID), table)

\* index files: idx0 with two records and 3 bytes more, idx1 with one
\* record, a second file of extension idx1 with none
IndexEntries ==
    {Entry("main_file_cache", IndexExtension(0),
           u24_be(1) \o u24_be(1) \o u24_be(2) \o u24_be(2) \o <<9, 9, 9>>),
     Entry("main_file_cache", IndexExtension(1), u24_be(3) \o u24_be(1)),
     Entry("backup", IndexExtension(1), <<>>)}

\* entries that are not index files, or whose number does not parse, or
\* is not written the way format! writes it
OddEntries ==
    {[stem |-> "README", ext |-> NoExt, bytes |-> <<1>>],
     Entry("main_file_cache", IDX \o <<50, 53, 54>>, <<>>),
     Entry("main_file_cache", IDX \o <<48, 49>>, <<>>)}

Directories ==
    {{DataEntry, TableEntry(t)} \cup is \cup os :
        t \in RefTables, is \in SUBSET IndexEntries,
        os \in {o \in SUBSET OddEntries : Cardinality(o) <= 1}}
    \cup {{DataEntry}, {TableEntry(<<>>)}}

InitIndices ==
    /\ dir \in {[open |-> TRUE, entries |-> d, overflow_checks |-> TRUE] :
                    d \in Directories}
    /\ dat2 = IndicesFile
    /\ runs = <<>>
    /\ rd = WalkIdle
    /\ CodecIdle
    /\ CallIdle

\* Indices::new is called on the directory, once the call before it is over
IndicesNew ==
    /\ dir.open
    /\ Len(runs) < 2
    /\ runs # <<>> => runs[Len(runs)].pc # "loop"
    /\ runs' = Append(runs, IndicesBegin(dir))
    /\ UNCHANGED <<dat2, rd, cbuf, cghost, dir, call>>

\* read_dir yields an entry, any of those it has not yielded yet
IndicesStep ==
    /\ runs # <<>>
    /\ runs[Len(runs)].pc = "loop"
    /\ \E entry \in runs[Len(runs)].todo :
          runs' = [runs EXCEPT ![Len(runs)] =
                      IndicesEntry(@, entry, dat2, dir.overflow_checks)]
    /\ UNCHANGED <<dat2, rd, cbuf, cghost, dir, call>>

\* read_dir is exhausted
IndicesReturn ==
    /\ runs # <<>>
    /\ runs[Len(runs)].pc = "loop"
    /\ runs[Len(runs)].todo = {}
    /\ runs' = [runs EXCEPT ![Len(runs)] = IndicesFinish(@)]
    /\ UNCHANGED <<dat2, rd, cbuf, cghost, dir, call>>

NextIndices == IndicesNew \/ IndicesStep \/ IndicesReturn

SpecIndices == InitIndices /\ [][NextIndices]_vars

----------------------------------------------------------------------------
(* Properties of the sector walk, under SpecRead.                          *)

\* C1: whenever read_into_writer returns Ok the writer holds exactly
\* ref.length bytes, so the assertion of Dat2::read never fails and the
\* buffer Dat2::read returns has length ref.length.
C1_ReadLength ==
    /\ rd.pc \in {"wrote", "ok"} => Len(rd.writer) = rd.ref.length
    /\ ~(rd.pc = "panic" /\ rd.err.type = "AssertEq")

\* a read of several chunks, the last one partial, has returned its buffer
C1_Witness ==
    /\ rd.pc = "ok"
    /\ rd.ref.length > SECTOR_DATA_SIZE
    /\ rd.ref.length % DataSize(rd.ref.id) # 0

\* The header fields of slot s as the bytes of the file spell them for a
\* reader of archive id (2- or 4-byte archive id field).
FieldAt(f, s, id, field) ==
    LET o == s * SECTOR_SIZE
        w == IF id > U16_MAX THEN 4 ELSE 2
        B(k) == FileByte(f, o + k)
    IN  CASE field = "archive_id" ->
                IF w = 2 THEN B(0) * 256 + B(1)
                ELSE (((IF B(0) >= 128 THEN B(0) - 256 ELSE B(0)) * 256
                       + B(1)) * 256 + B(2)) * 256 + B(3)
          [] field = "chunk"    -> B(w) * 256 + B(w + 1)
          [] field = "next"     -> (B(w + 2) * 256 + B(w + 3)) * 256 + B(w + 4)
          [] field = "index_id" -> B(w + 5)

SectorMatches(f, s, ref, i) ==
    /\ FieldAt(f, s, ref.id, "chunk") = i
    /\ FieldAt(f, s, ref.id, "archive_id") = ref.id
    /\ FieldAt(f, s, ref.id, "index_id") = ref.index_id

\* C2: the i-th visited sector is ref.sector for i = 0 and the previous
\* header's next otherwise; a read that succeeds visited only sectors whose
\* header has chunk i, archive id ref.id and index id ref.index_id; a
\* visited sector that violates one of them ends the read with an error,
\* and only a read that ended "ok" returns a buffer.
C2_ChainValidated ==
    /\ \A i \in 1..Len(rd.visited) :
          /\ rd.visited[i] = IF i = 1 THEN rd.ref.sector
                             ELSE FieldAt(dat2, rd.visited[i - 1], rd.ref.id, "next")
          /\ \/ SectorMatches(dat2, rd.visited[i], rd.ref, i - 1)
             \/ /\ rd.pc = "err"
                /\ i = Len(rd.visited)
                /\ rd.err.type \in {"SectorArchiveMismatch", "SectorChunkMismatch",
                                    "SectorIndexMismatch"}
    /\ rd.pc \in {"wrote", "ok"} => Len(rd.visited) = Len(DataBlocks(rd.ref))

\* a read that followed a chain through two sectors or more has succeeded
C2_Witness ==
    /\ rd.pc = "ok"
    /\ Len(rd.visited) >= 2
    /\ rd.visited[2] < rd.visited[1]

\* C9: Dat2::read never panics, whatever the locator and the file.
C9_NeverPanics == rd.pc # "panic"

----------------------------------------------------------------------------
(* Properties of the codec, under SpecCodec.                               *)

\* the buffer is the result of decoding what encode produced, with the
\* configuration encode left on it
RoundTripped == cghost.phase = "decoded" /\ ~cghost.touched

\* C3: decoding the result of encoding, with the same keys configured,
\* yields the payload and the version that were encoded.
C3_RoundTrip ==
    RoundTripped =>
        /\ cbuf.state = "Decoded"
        /\ cbuf.buffer = cghost.orig.buffer
        /\ cbuf.version = cghost.orig.version

\* C4: the frame encode produces is the tag byte, the u32 big-endian length
\* of the compressed bytes, the u32 big-endian length of the payload iff the
\* compression is not None, the compressed bytes, and the i16 big-endian
\* version iff one is set; with keys set the frame is the frame produced
\* without keys with its compressed bytes, and only them, enciphered.
C4_EncodeFrame ==
    cghost.phase = "encoded" =>
        LET o     == cghost.orig
            f     == cbuf.buffer
            c     == o.compression
            hl    == IF c = 0 THEN 5 ELSE 9
            vl    == IF o.version.some THEN 2 ELSE 0
            body  == SubSeq(f, hl + 1, Len(f) - vl)
            plain == Encode([o EXCEPT !.keys = NoKeys]).buffer
            pbody == SubSeq(plain, hl + 1, Len(plain) - vl)
        IN  /\ Len(f) >= hl + vl
            /\ f[1] = c
            /\ be_u32(SubSeq(f, 2, 5)).val = Len(body)
            /\ c # 0 => be_u32(SubSeq(f, 6, 9)).val = Len(o.buffer)
            /\ o.version.some =>
                  be_i16(SubSeq(f, Len(f) - 1, Len(f))).val = o.version.val
            /\ Len(plain) = Len(f)
            /\ Take(plain, hl) = Take(f, hl)
            /\ Drop(plain, Len(plain) - vl) = Drop(f, Len(f) - vl)
            /\ pbody = CASE c = 0 -> o.buffer
                         [] c = 1 -> compress_bzip2(o.buffer)
                         [] c = 2 -> compress_gzip(o.buffer)
                         [] c = 3 -> compress_lzma(o.buffer)
            /\ body = IF o.keys.some THEN XteaEncipher(pbody, o.keys.val)
                      ELSE pbody
            /\ (o.buffer = <<0, 1, 2>> /\ c = 0 /\ o.version = Some(7)
                    /\ ~o.keys.some)
                  => f = <<0, 0, 0, 0, 3, 0, 1, 2, 0, 7>>

\* a compressed payload with a version has been encoded under keys
C4_Witness ==
    /\ cghost.phase = "encoded"
    /\ cghost.orig.keys.some
    /\ cghost.orig.version.some
    /\ cghost.orig.compression = 1
    /\ Len(cghost.orig.buffer) >= 3
    /\ cbuf.buffer # Encode([cghost.orig EXCEPT !.keys = NoKeys]).buffer

\* the fields of the frame that was decoded: tag, compressed_len, and
\* for a tag other than 0 decompressed_len and the compressed_len bytes
FrameTag == cghost.frame.buffer[1]

FrameCompressedLen == be_u32(Drop(cghost.frame.buffer, 1)).val

FrameDecompressedLen == be_u32(Drop(cghost.frame.buffer, 5)).val

FrameData == SubSeq(cghost.frame.buffer, 10, 9 + FrameCompressedLen)

\* a frame without keys was decoded that holds a tag in 1..3, both
\* lengths and compressed_len bytes
DecodedCompressedFrame ==
    /\ cghost.phase = "raw"
    /\ ~cghost.frame.keys.some
    /\ Len(cghost.frame.buffer) >= 9
    /\ FrameTag \in 1..3
    /\ FrameCompressedLen >= 0
    /\ Len(cghost.frame.buffer) >= 9 + FrameCompressedLen

\* what the stream of the frame decompresses to when read to its end
RealOutput ==
    CASE FrameTag = 1 -> UnpackAll(FrameData)
      [] FrameTag = 2 -> UnpackAll(Drop(FrameData, Len(GZ_HEADER)))
      [] FrameTag = 3 -> UnpackAll(Drop(FrameData, Len(LZMA_HEADER)))

\* C11: decode of a frame with tag 1..3 whose stream decompresses to a
\* number of bytes other than the declared decompressed_len does not
\* return a decoded buffer.
C11_LengthMismatchFails ==
    (/\ DecodedCompressedFrame
     /\ RealOutput.ok
     /\ Len(RealOutput.val) # FrameDecompressedLen)
        => cbuf.state # "Decoded"

\* C12: the stream handed to the bzip2 decompressor is "BZh1" followed
\* by all compressed_len bytes of the frame, compressed_len + 4 bytes; for
\* an encoded payload it is the compressor's output again.
C12_BzStreamWhole ==
    /\ (DecodedCompressedFrame /\ FrameTag = 1 /\ FrameCompressedLen >= 4)
          => /\ BzStream(FrameData, FrameCompressedLen) = BZ_MAGIC \o FrameData
             /\ Len(BzStream(FrameData, FrameCompressedLen))
                   = FrameCompressedLen + 4
    /\ (cghost.phase = "encoded" /\ cghost.orig.compression = 1)
          => BzStream(compress_bzip2(cghost.orig.buffer),
                      Len(compress_bzip2(cghost.orig.buffer)))
                = BzEncoder(cghost.orig.buffer)

\* C10: decode never panics.
C10_DecodeNeverPanics == cbuf.state # "Panic"

----------------------------------------------------------------------------
(* Properties of the indices loader, under SpecIndices.                    *)

Done(run) == run.pc \in {"ok", "err", "panic"}

\* {N : a file with extension idxN exists in the directory}
ExtensionNumbers ==
    {n \in 0..255 : \E e \in dir.entries : e.ext = Some(IndexExtension(n))}

\* the files of extension idxN
FilesOf(n) == {e \in dir.entries : e.ext = Some(IndexExtension(n))}

\* the reference table as main_file_cache.idx255 holds it
TableOnDisk ==
    IndexFromBuffer(REFERENCE_TABLE_ID,
        (CHOOSE e \in FindEntry(dir, "main_file_cache",
                                IndexExtension(REFERENCE_TABLE_ID)) : TRUE).bytes)

\* C5: when Indices::new succeeds, the keys of the result are exactly the
\* numbers N of the extensions idxN in the directory, 255 among them; the
\* index under 255 is the reference table, and the index under every key
\* k has id k.
C5_KeySet ==
    \A i \in 1..Len(runs) :
        runs[i].pc = "ok" =>
            /\ DOMAIN runs[i].indices = ExtensionNumbers
            /\ REFERENCE_TABLE_ID \in DOMAIN runs[i].indices
            /\ runs[i].indices[REFERENCE_TABLE_ID] = TableOnDisk
            /\ \A k \in DOMAIN runs[i].indices : runs[i].indices[k].id = k

\* a call succeeded on a directory with index files 0 and 1, the reference
\* table, the data file and a file that is no index
C5_Witness ==
    \E i \in 1..Len(runs) :
        /\ runs[i].pc = "ok"
        /\ DOMAIN runs[i].indices = {0, 1, REFERENCE_TABLE_ID}
        /\ \E e \in dir.entries : ~e.ext.some

TwoRuns == Len(runs) = 2 /\ Done(runs[1]) /\ Done(runs[2])

\* C6 as the specification states it: two calls on the same directory,
\* whatever the order of enumeration of each, end the same way, with the
\* same map or the same error.
C6_SameOutcome ==
    TwoRuns =>
        /\ runs[1].pc = runs[2].pc
        /\ runs[1].err = runs[2].err
        /\ runs[1].indices = runs[2].indices

\* C6, as the loader keeps it: two calls on the same directory both succeed
\* or both fail, whatever the order of enumeration of each.  When they
\* succeed the maps have the same keys, and the same index under every key
\* whose extension only one file has.  When they fail, each reports the
\* failure of the first failing entry of its own enumeration: the same
\* failure if that is the same entry.
C6_OrderIndependent ==
    TwoRuns =>
        /\ runs[1].pc = "ok" <=> runs[2].pc = "ok"
        /\ runs[1].pc = "ok" =>
              /\ DOMAIN runs[1].indices = DOMAIN runs[2].indices
              /\ \A k \in DOMAIN runs[1].indices :
                    Cardinality(FilesOf(k)) = 1 =>
                        runs[1].indices[k] = runs[2].indices[k]
        /\ runs[1].pc # "ok" /\ runs[1].failed_at = runs[2].failed_at =>
              /\ runs[1].pc = runs[2].pc
              /\ runs[1].err = runs[2].err

\* two calls failed at different entries of the same directory
C6_Witness ==
    /\ TwoRuns
    /\ runs[1].pc # "ok" /\ runs[2].pc # "ok"
    /\ runs[1].failed_at # NoEntry /\ runs[2].failed_at # NoEntry
    /\ runs[1].failed_at # runs[2].failed_at

\* the metadata Dat2::metadata gives for a locator
MetadataOf(archive_ref) ==
    IndexMetadataFromSlice(
        Decode(BufferFrom(Dat2Read(dat2, archive_ref).writer, "Encoded")).buffer,
        dir.overflow_checks).val

\* C7: every index N other than 255 that a call has loaded carries, if
\* the locator of archive N in the reference table has a length above 0,
\* the metadata parsed from the decoded archive read at that locator; if
\* the length is 0 its metadata is empty.  The data file is never read at
\* a locator of length 0.
C7_MetadataAttached ==
    \A i \in 1..Len(runs) :
        /\ \A k \in DOMAIN runs[i].indices \ {REFERENCE_TABLE_ID} :
              LET archive_ref == runs[i].ref_index.archive_refs[k]
              IN  IF archive_ref.length > 0
                  THEN /\ archive_ref \in runs[i].reads
                       /\ runs[i].indices[k].metadata = MetadataOf(archive_ref)
                  ELSE /\ archive_ref \notin runs[i].reads
                       /\ runs[i].indices[k].metadata = <<>>
        /\ \A archive_ref \in runs[i].reads : archive_ref.length > 0

\* a call succeeded with index 0 at a locator of length 0 and index 1 with
\* the metadata that was encoded into the data file for it
C7_Witness ==
    \E i \in 1..Len(runs) :
        /\ runs[i].pc = "ok"
        /\ {0, 1} \subseteq DOMAIN runs[i].indices
        /\ runs[i].ref_index.archive_refs[0].length = 0
        /\ runs[i].indices[0].metadata = <<>>
        /\ runs[i].ref_index.archive_refs[1].length > 0
        /\ runs[i].indices[1].metadata
              = IndexMetadataFromSlice(MetaPayload(1), TRUE).val
        /\ Len(runs[i].indices[1].metadata) = 1

\* the index files idxN, N other than 255, of which the reference table
\* on disk has no record
Missing ==
    IF FindEntry(dir, "main_file_cache", IndexExtension(REFERENCE_TABLE_ID)) = {}
    THEN {}
    ELSE {n \in ExtensionNumbers \ {REFERENCE_TABLE_ID} :
            n \notin DOMAIN TableOnDisk.archive_refs}

\* C8 as the specification states it: with an index file the reference
\* table has no record of, the call fails with ArchiveNotFound for index
\* 255 and the archive of such a file.
C8_AlwaysNotFound ==
    \A i \in 1..Len(runs) :
        Done(runs[i]) /\ Missing # {} =>
            /\ runs[i].pc = "err"
            /\ runs[i].err.type = "ArchiveNotFound"
            /\ runs[i].err.idx = REFERENCE_TABLE_ID
            /\ runs[i].err.arc \in Missing

\* C8, as the loader keeps it: with an index file idxN the reference table
\* has no record of, the call never succeeds and leaves no map; it fails
\* with ArchiveNotFound for index 255 and archive N when idxN is the entry
\* at which it fails, the first failing entry of the enumeration.
C8_NotFoundWhenReached ==
    \A i \in 1..Len(runs) :
        Done(runs[i]) /\ Missing # {} =>
            /\ runs[i].pc # "ok"
            /\ runs[i].indices = <<>>
            /\ \A n \in Missing :
                  runs[i].failed_at \in FilesOf(n) =>
                      /\ runs[i].pc = "err"
                      /\ runs[i].err = IndicesErr("ArchiveNotFound",
                                                  REFERENCE_TABLE_ID, n)

\* a call failed at idx1, of which the table has no record, in a directory
\* that holds idx0 as well
C8_Witness ==
    \E i \in 1..Len(runs) :
        /\ 1 \in Missing
        /\ FilesOf(0) # {}
        /\ runs[i].pc = "err"
        /\ runs[i].failed_at \in FilesOf(1)
        /\ runs[i].err = IndicesErr("ArchiveNotFound", REFERENCE_TABLE_ID, 1)

----------------------------------------------------------------------------
\* IndexMetadata::from_slice on its own: metadata buffers of every layout
\* the format has, whole and cut short at every length, under both builds.

\* the bytes be_u32_smart reads v from: two bytes below 0x8000, else four
\* bytes with the top bit set
Smart(v) ==
    IF v < 32768 THEN u16_be(v)
    ELSE <<128 + (v \div 16777216), (v \div 65536) % 256, (v \div 256) % 256,
           v % 256>>

\* an id, a count or an id modifier as the protocol writes it
Num(protocol, v) == IF protocol >= 7 THEN Smart(v) ELSE u16_be(v)

Flag(flags, bit) == (flags \div bit) % 2 = 1

\* one column: a cell per archive if the column is present
Column(present, archives, Cell(_)) ==
    IF present THEN Concat([k \in 1..Len(archives) |-> Cell(k)]) ELSE <<>>

\* the whole metadata buffer of a layout: the columns from_slice reads,
\* in its order, each with a cell for every one of the archives
WholeBuffer(shape) ==
    <<shape.protocol>>
    \o (IF shape.protocol >= 6 THEN <<0, 0, 0, 1>> ELSE <<>>)
    \o <<shape.flags>>
    \o Num(shape.protocol, Len(shape.archives))
    \o Column(TRUE, shape.archives,
              LAMBDA k : Num(shape.protocol, shape.archives[k].delta))
    \o Column(Flag(shape.flags, 1), shape.archives, LAMBDA k : <<0, 0, 1, k>>)
    \o Column(TRUE, shape.archives, LAMBDA k : <<0, 0, 2, k>>)
    \o Column(Flag(shape.flags, 8), shape.archives, LAMBDA k : <<0, 0, 3, k>>)
    \o Column(Flag(shape.flags, 2), shape.archives, LAMBDA k : Repeat(k, 64))
    \o Column(Flag(shape.flags, 4), shape.archives, LAMBDA k : Repeat(0, 8))
    \o Column(TRUE, shape.archives, LAMBDA k : <<0, 0, 4, k>>)
    \o Column(TRUE, shape.archives,
              LAMBDA k : Num(shape.protocol, Len(shape.archives[k].mods)))
    \o Column(TRUE, shape.archives,
              LAMBDA k : Concat([j \in 1..Len(shape.archives[k].mods) |->
                                   Num(shape.protocol, shape.archives[k].mods[j])]))

ArchiveShape(delta, mods) == [delta |-> delta, mods |-> mods]

I32_MAX == 2147483647

\* archive lists with ids and id modifiers the two widths both hold
SmallArchives ==
    {<<>>,
     <<ArchiveShape(3, <<5>>)>>,
     <<ArchiveShape(3, <<1, 1>>), ArchiveShape(4, <<>>)>>,
     <<ArchiveShape(1, <<2>>), ArchiveShape(2, <<0, 7>>), ArchiveShape(40000, <<3>>)>>}

\* archive lists with the largest values a smart number holds
LargeArchives ==
    {<<ArchiveShape(I32_MAX, <<1>>), ArchiveShape(1, <<2>>)>>,
     <<ArchiveShape(2, <<I32_MAX, I32_MAX, I32_MAX>>)>>}

MetaProtocols == {5, 6, 7}

MetaFlags == {0, 3, 12}

Shapes ==
    {[protocol |-> p, flags |-> f, archives |-> a] :
        p \in MetaProtocols, f \in MetaFlags, a \in SmallArchives}
    \cup {[protocol |-> 7, flags |-> 0, archives |-> a] : a \in LargeArchives}

\* the calls: a layout, its buffer cut at any length (whole included), and
\* whether the build checks integer overflow
MetaCalls ==
    UNION {{[pc |-> "args", fn |-> "from_slice", shape |-> s,
             buffer |-> Take(WholeBuffer(s), n), overflow_checks |-> c] :
               n \in 0..Len(WholeBuffer(s)), c \in BOOLEAN} : s \in Shapes}

InitMeta ==
    /\ call \in MetaCalls
    /\ ReadIdle
    /\ CodecIdle
    /\ IndicesIdle

Returned(c, result) ==
    [pc |-> "done", fn |-> c.fn, shape |-> c.shape, buffer |-> c.buffer,
     overflow_checks |-> c.overflow_checks, result |-> result]

\* IndexMetadata::from_slice(buffer)
FromSlice ==
    /\ call.pc = "args"
    /\ call.fn = "from_slice"
    /\ call' = Returned(call, IndexMetadataFromSlice(call.buffer, call.overflow_checks))
    /\ UNCHANGED <<dat2, rd, cbuf, cghost, dir, runs>>

NextMeta == FromSlice

SpecMeta == InitMeta /\ [][NextMeta]_vars

----------------------------------------------------------------------------
\* Properties of the metadata parser

Parsed == call.pc = "done" /\ call.fn = "from_slice"

\* the buffer ends before all the sections the layout declares
Truncated == Len(call.buffer) < Len(WholeBuffer(call.shape))

\* C13: IndexMetadata::from_slice fails on every buffer that ends before
\* all the declared sections are there, and a parse that succeeds gives
\* exactly archive_count descriptors.
C13_TruncatedFails ==
    Parsed =>
        /\ Truncated => call.result.kind # "ok"
        /\ call.result.kind = "ok"
              => Len(call.result.val) = Len(call.shape.archives)

RECURSIVE SumOf(_)
SumOf(seq) == IF seq = <<>> THEN 0 ELSE seq[1] + SumOf(Tail(seq))

Deltas(shape) == [k \in 1..Len(shape.archives) |-> shape.archives[k].delta]

\* C19: on a whole buffer the parse succeeds with no overflow failure;
\* the id of archive k is the sum of the first k id deltas, valid id j of
\* an archive is the sum of its first j modifiers, and every archive has
\* one list of entry_count valid ids.
C19_DeltaDecoding ==
    (Parsed /\ ~Truncated) =>
        /\ call.result.kind = "ok"
        /\ Len(call.result.val) = Len(call.shape.archives)
        /\ \A k \in 1..Len(call.shape.archives) :
              /\ Len(call.result.val[k].valid_ids) = Len(call.shape.archives[k].mods)
              /\ call.result.val[k].entry_count = Len(call.shape.archives[k].mods)
              /\ call.shape.archives \in SmallArchives
                    => /\ call.result.val[k].id = SumOf(Take(Deltas(call.shape), k))
                       /\ \A j \in 1..Len(call.shape.archives[k].mods) :
                             call.result.val[k].valid_ids[j]
                                = SumOf(Take(call.shape.archives[k].mods, j))

----------------------------------------------------------------------------
\* SectorHeader::validate on its own: every header and every expectation
\* over a few values of each field, the ones of the test of sector.rs
\* included.

HeaderArchiveIds == {0, 1, U16_MAX + 1}

HeaderChunks == {0, 1}

HeaderIndexIds == {0, 255}

Headers ==
    {[archive_id |-> a, chunk |-> c, next |-> 2, index_id |-> i] :
        a \in HeaderArchiveIds, c \in HeaderChunks, i \in HeaderIndexIds}

ValidateCalls ==
    {[pc |-> "args", fn |-> "validate", header |-> h,
      archive_id |-> a, chunk |-> c, index_id |-> i] :
        h \in Headers, a \in HeaderArchiveIds, c \in HeaderChunks,
        i \in HeaderIndexIds}

InitSector ==
    /\ call \in ValidateCalls
    /\ ReadIdle
    /\ CodecIdle
    /\ IndicesIdle

\* header.validate(archive_id, chunk, index_id)
ValidateCall ==
    /\ call.pc = "args"
    /\ call.fn = "validate"
    /\ call' = [pc |-> "done", fn |-> call.fn, header |-> call.header,
                archive_id |-> call.archive_id, chunk |-> call.chunk,
                index_id |-> call.index_id,
                result |-> Validate(call.header, call.archive_id, call.chunk,
                                    call.index_id)]
    /\ UNCHANGED <<dat2, rd, cbuf, cghost, dir, runs>>

NextSector == ValidateCall

SpecSector == InitSector /\ [][NextSector]_vars

----------------------------------------------------------------------------
\* Properties of SectorHeader::validate

Validated == call.pc = "done" /\ call.fn = "validate"

SameArchive == call.header.archive_id = call.archive_id

SameChunk == call.header.chunk = call.chunk

SameIndex == call.header.index_id = call.index_id

\* C14: validate returns Ok exactly when the archive id, the chunk and the
\* index id of the header all equal the expected ones; otherwise the error
\* is the archive-id mismatch if the archive ids differ, else the chunk
\* mismatch if the chunks differ, else the index mismatch, each carrying
\* (found in the header, expected).
C14_ValidatePrecedence ==
    Validated =>
        /\ call.result = NoError <=> (SameArchive /\ SameChunk /\ SameIndex)
        /\ ~SameArchive
              => call.result = [type |-> "SectorArchiveMismatch",
                                found |-> call.header.archive_id,
                                expected |-> call.archive_id]
        /\ (SameArchive /\ ~SameChunk)
              => call.result = [type |-> "SectorChunkMismatch",
                                found |-> call.header.chunk,
                                expected |-> call.chunk]
        /\ (SameArchive /\ SameChunk /\ ~SameIndex)
              => call.result = [type |-> "SectorIndexMismatch",
                                found |-> call.header.index_id,
                                expected |-> call.index_id]

\* the chunk and the index both differ, the archive id does not: the chunk
\* mismatch is reported (the header of the test of sector.rs)
C14_Witness ==
    /\ Validated
    /\ call.header = [archive_id |-> 0, chunk |-> 0, next |-> 2, index_id |-> 255]
    /\ call.archive_id = 0 /\ call.chunk = 1 /\ call.index_id = 0
    /\ call.result = [type |-> "SectorChunkMismatch", found |-> 0, expected |-> 1]

----------------------------------------------------------------------------
\* Further properties of the sector walk

Started == rd.pc # "idle"

\* C15: the header size of a read is Normal (8-byte header, up to 512
\* payload bytes a sector) for an archive id up to 0xFFFF, 0xFFFF included,
\* and Expanded (10 and 510) for an id above it, 0x10000 included; every
\* sector of one read is parsed with that same size.
C15_HeaderSize ==
    Started =>
        /\ rd.header_size = IF rd.ref.id <= 65535 THEN "Normal" ELSE "Expanded"
        /\ \A k \in 1..Len(rd.parsed) :
              /\ rd.parsed[k].size = rd.header_size
              /\ rd.parsed[k].header_len = IF rd.ref.id <= 65535 THEN 8 ELSE 10
              /\ rd.parsed[k].payload_len <= IF rd.ref.id <= 65535 THEN 512 ELSE 510
              /\ k < Len(DataBlocks(rd.ref))
                    => rd.parsed[k].payload_len
                          = IF rd.ref.id <= 65535 THEN 512 ELSE 510

\* a read of archive 0xFFFF over two sectors has returned
C15_Witness ==
    /\ rd.pc = "ok"
    /\ rd.ref.id = 65535
    /\ Len(rd.parsed) = 2
    /\ rd.parsed[1] = [size |-> "Normal", header_len |-> 8, payload_len |-> 512]
    /\ rd.parsed[2].size = "Normal"

\* ceil(length / data block size)
Iterations(archive) ==
    (archive.length + DataSize(archive.id) - 1) \div DataSize(archive.id)

\* C17: the walk makes at most ceil(ref.length / data_block_size)
\* iterations whatever the next pointers are, each iteration uses up one of
\* them, and the walk returns Ok only after all of them (a next of 0 before
\* the last chunk does not end it).
C17_WalkBounded ==
    Started =>
        /\ Len(rd.visited) <= Iterations(rd.ref)
        /\ rd.pc = "walk" => Len(rd.visited) + Len(rd.blocks) = Iterations(rd.ref)
        /\ rd.pc \in {"wrote", "ok"} => Len(rd.visited) = Iterations(rd.ref)

\* a sector whose next points at itself was visited twice and the walk is
\* over
C17_Witness ==
    /\ rd.pc = "err"
    /\ Len(rd.visited) = 2
    /\ rd.visited[1] = rd.visited[2]
    /\ Iterations(rd.ref) = 3

Mismatches ==
    {"SectorArchiveMismatch", "SectorChunkMismatch", "SectorIndexMismatch"}

\* the payload of the k-th sector visited, as it lies in the file
ChunkPayload(f, w, k) ==
    Slice(f,
          w.visited[k] * SECTOR_SIZE
             + (IF w.ref.id <= 65535 THEN 8 ELSE 10),
          w.visited[k] * SECTOR_SIZE + DataBlocks(w.ref)[k])

\* C18: when the validation fails at chain position i the read is over at
\* once: the failing sector is the last one visited and the writer holds
\* exactly the payload of chunks 0..i-1.
C18_AbortsAtFailure ==
    (rd.pc = "err" /\ rd.err.type \in Mismatches) =>
        /\ Len(rd.visited) = rd.chunk + 1
        /\ rd.writer = Concat([k \in 1..rd.chunk |-> ChunkPayload(dat2, rd, k)])
        /\ ~ENABLED NextRead

\* the validation failed at chain position 1, after one chunk was written
C18_Witness ==
    /\ rd.pc = "err"
    /\ rd.err.type = "SectorChunkMismatch"
    /\ rd.chunk = 1
    /\ Len(rd.writer) = 512

----------------------------------------------------------------------------
\* Further properties of the codec

\* a frame with tag 0 and without keys was decoded that holds at least
\* compressed_len bytes after its tag and length
DecodedStoredFrame ==
    /\ cghost.phase \in {"raw", "decoded"}
    /\ ~cghost.frame.keys.some
    /\ Len(cghost.frame.buffer) >= 5
    /\ FrameTag = 0
    /\ FrameCompressedLen >= 0
    /\ Len(cghost.frame.buffer) >= 5 + FrameCompressedLen

\* the bytes of the frame after its compressed_len payload bytes
Trailing == Drop(cghost.frame.buffer, 5 + FrameCompressedLen)

\* two bytes as a big-endian signed 16-bit number
SignedPair(hi, lo) ==
    IF hi * 256 + lo >= 32768 THEN hi * 256 + lo - 65536 ELSE hi * 256 + lo

\* C16: decode of a frame with compression None and no keys takes exactly
\* compressed_len bytes as the payload; the version is absent when 0 or 1
\* bytes remain after them and is the big-endian i16 of the first two
\* remaining bytes otherwise.
C16_StoredFrame ==
    DecodedStoredFrame =>
        /\ cbuf.state = "Decoded"
        /\ cbuf.buffer = SubSeq(cghost.frame.buffer, 6, 5 + FrameCompressedLen)
        /\ Len(Trailing) <= 1 => ~cbuf.version.some
        /\ Len(Trailing) >= 2
              => /\ cbuf.version.some
                 /\ cbuf.version.val = SignedPair(Trailing[1], Trailing[2])

\* a stored frame with three bytes after its payload was decoded: the
\* version is made of the first two of them
C16_Witness ==
    /\ DecodedStoredFrame
    /\ Len(Trailing) = 3
    /\ cbuf.state = "Decoded"
    /\ cbuf.version = [some |-> TRUE, val |-> 258]

====
